---- MODULE Spec2Model ----
(***************************************************************************)
(* Model of the falcon cross-filter controller (class App) and of the      *)
(* cumulative cubes it reads.                                               *)
(*                                                                         *)
(* Optional values of the TypeScript code are modelled by the empty tuple: *)
(* a brush that is not in the Map is <<>>, a brush [lo, hi] is <<lo, hi>>; *)
(* this.data.get(name) === undefined is <<>>, a cube is the tuple of its   *)
(* slices (slice k of the code is element k + 1 of the tuple).             *)
(* Fractions (the pixel step of a dimension) are pairs <<num, den>>, so    *)
(* rounding and boundary comparisons are exact integer arithmetic.         *)
(***************************************************************************)
EXTENDS Integers, Sequences, FiniteSets, TLC

VARIABLES
    dataset,       \* the rows of the table the DataBase holds (fixed after Init)
    activeView,    \* App.activeView ("undefined" before the first activation)
    brushes,       \* App.brushes: dimension -> <<>> | <<lo, hi>>
    data,          \* App.data: view -> <<>> | cube
    needsUpdate,   \* App.needsUpdate
    scheduled,     \* update() callbacks registered for the next animation frame
    frameLeft,     \* callbacks of the running animation frame not yet run
    frameUpdates,  \* logical updates performed in the running/last frame
    rendered,      \* view -> aggregate last handed to updateView
    dbCalls,       \* DataBase calls issued by the latest step, by method
    epoch,         \* arguments of the db.loadData call that produced data
    built,         \* view -> arguments of the last db.loadData issued for it
    failures,      \* db.loadData calls that have thrown so far
    changedSince,  \* view -> a brush of another dimension changed since built
    again,         \* the latest step built a view anew with none changed since
    moved,         \* this.brushes as left by the last brushMove
    used           \* what the last logical update read and computed

vars == <<dataset, activeView, brushes, data, needsUpdate, scheduled, frameLeft,
          frameUpdates, rendered, dbCalls, epoch, built, failures,
          changedSince, again, moved, used>>

----------------------------------------------------------------------------
(* Bounds of the model *)

\* pixel width of a histogram; the resolution of the cubes
HISTOGRAM_WIDTH == 4
\* upper end of every dimension's extent (the lower end is 0)
MaxExtent == 4
\* bins of every dimension
Bins == 2
\* update() callbacks that may wait for one animation frame
MaxScheduled == 2
\* builds the backend may fail
MaxFailures == 1

----------------------------------------------------------------------------
(* Configuration *)

\* optimizations.naiveBaseline of the configuration
naiveBaseline == TRUE

Dimensions == {"DEP_DELAY", "ARR_DELAY"}

views ==
    [DEP_DELAY |-> [type |-> "1D", dimensions |-> <<"DEP_DELAY">>],
     ARR_DELAY |-> [type |-> "1D", dimensions |-> <<"ARR_DELAY">>],
     DEP_DELAY_ARR_DELAY |->
         [type |-> "2D", dimensions |-> <<"DEP_DELAY", "ARR_DELAY">>]]

ViewNames == DOMAIN views

\* the order in which a loop over the views visits them
viewOrder == <<"ARR_DELAY", "DEP_DELAY", "DEP_DELAY_ARR_DELAY">>

is1DView(view) == view.type = "1D"

Views1D == {name \in ViewNames : is1DView(views[name])}

\* view.dimension of a 1D view
dimension(name) == views[name].dimensions[1]

extent(dim) == <<0, MaxExtent>>

\* intervals the user may brush: from below the extent to its middle, and from
\* its middle to beyond its upper end
BrushIntervals == {<<-1, 2>>, <<2, MaxExtent + 2>>}

\* values a row may hold on a dimension: the lower end of the extent, a value
\* inside it, a value above it
RowValues == <<0, 2, MaxExtent + 1>>

\* the table with one row for every combination of these values
FullTable ==
    [n \in 1..(Len(RowValues) * Len(RowValues)) |->
        [DEP_DELAY |-> RowValues[((n - 1) \div Len(RowValues)) + 1],
         ARR_DELAY |-> RowValues[((n - 1) % Len(RowValues)) + 1]]]

\* the tables the DataBase may hold: each single row, and all the rows together
Datasets == {<<FullTable[n]>> : n \in DOMAIN FullTable} \cup {FullTable}

----------------------------------------------------------------------------
(* util: bins, steps, clamping, differences *)

Max(a, b) == IF a >= b THEN a ELSE b

Min(a, b) == IF a <= b THEN a ELSE b

\* Math.round(num / den) for den > 0: halves round up
Round(num, den) == (2 * num + den) \div (2 * den)

\* (range[1] - range[0]) / bins, as the fraction <<num, den>>
stepSize(range, bins) == <<range[2] - range[1], bins>>

\* index of the boundary nearest to v among start, start + step, ...
binNumberFunction(start, step, v) == Round((v - start) * step[2], step[1])

clamp(i, range) == Max(range[1], Min(range[2], i))

\* d3.extent of a pair: [min, max]
d3extent(value) == <<Min(value[1], value[2]), Max(value[1], value[2])>>

\* omit(views, name): the views without name
omit(name) == ViewNames \ {name}

\* element-wise b - a of two aggregates of one shape
diff(a, b) == [x \in DOMAIN a |-> b[x] - a[x]]

\* hists.pick(i, null[, null]): slice i of a cube
pick(hists, i) == hists[i + 1]

----------------------------------------------------------------------------
(* DataBase: exact aggregates over the table, and the cumulative cubes *)

RowIds == DOMAIN dataset

\* a row satisfies every brush of the filter context (closed intervals)
Passes(row, context) ==
    \A dim \in Dimensions :
        context[dim] = <<>> \/
        (context[dim][1] <= row[dim] /\ row[dim] <= context[dim][2])

\* bin of value v on dimension dim, 1..Bins, or 0 when v is outside the extent
BinOf(dim, v) ==
    LET e == extent(dim)
        b == ((v - e[1]) * Bins) \div (e[2] - e[1])
    IN  IF v >= e[1] /\ b < Bins THEN b + 1 ELSE 0

\* the cell of a view's aggregate a row is counted in, or 0 when a value of
\* the row is outside the extent: the cells are those of the flat array of an
\* ndarray, Bins of them for a 1D view, Bins * Bins (row-major) for a 2D view
CellOf(name, row) ==
    LET dims == views[name].dimensions
        x == BinOf(dims[1], row[dims[1]])
    IN  IF is1DView(views[name]) THEN x
        ELSE LET y == BinOf(dims[2], row[dims[2]])
             IN  IF x = 0 \/ y = 0 THEN 0 ELSE (x - 1) * Bins + y

Cells(name) == IF is1DView(views[name]) THEN 1..Bins ELSE 1..(Bins * Bins)

\* the aggregate of a view over the rows ids: the count of every cell
Aggregate(name, ids) ==
    LET counted == {<<i, CellOf(name, dataset[i])>> : i \in ids}
    IN  [n \in Cells(name) |-> Cardinality({c \in counted : c[2] = n})]

\* db.histogram / db.heatmap of a view under a filter context
Histogram(name, context) ==
    Aggregate(name, {i \in RowIds : Passes(dataset[i], context)})

\* v <= boundary k of the pixels + 1 boundaries that span the extent of dim
AtMostBoundary(dim, pixels, k, v) ==
    LET e == extent(dim)
    IN  (v - e[1]) * pixels <= k * (e[2] - e[1])

\* slice k of the cube of a passive view: the rows up to boundary k; the last
\* slice is the complete aggregate under the filter context
CubeSlice(active, pixels, name, context, k) ==
    Aggregate(name,
        {i \in RowIds :
            /\ Passes(dataset[i], context)
            /\ \/ k = pixels
               \/ AtMostBoundary(dimension(active), pixels, k,
                                 dataset[i][dimension(active)])})

\* db.loadData(activeView, pixels, views, brushes): a cube per passive view
loadData(active, pixels, passive, context) ==
    [name \in ViewNames |->
        IF name \in passive
        THEN [s \in 1..(pixels + 1) |->
                CubeSlice(active, pixels, name, context, s - 1)]
        ELSE <<>>]

NoBrushes == [dim \in Dimensions |-> <<>>]

NoData == [name \in ViewNames |-> <<>>]

NoArgs ==
    [activeView |-> "undefined", pixels |-> 0, views |-> {}, brushes |-> NoBrushes]

NoCalls == [loadData |-> 0, histogram |-> 0]

----------------------------------------------------------------------------
(* App *)

\* the state after the constructor: initialize() renders every view from an
\* unfiltered db.histogram / db.heatmap; nothing is active, nothing is loaded
Init ==
    /\ dataset \in Datasets
    /\ activeView = "undefined"
    /\ brushes = NoBrushes
    /\ data = NoData
    /\ needsUpdate = FALSE
    /\ scheduled = 0
    /\ frameLeft = 0
    /\ frameUpdates = 0
    /\ rendered = [name \in ViewNames |-> Histogram(name, NoBrushes)]
    /\ dbCalls = [loadData |-> 0, histogram |-> Cardinality(ViewNames)]
    /\ epoch = NoArgs
    /\ built = [name \in Views1D |-> NoArgs]
    /\ failures = 0
    /\ changedSince = [name \in Views1D |-> FALSE]
    /\ again = FALSE
    /\ moved = NoBrushes
    /\ used = [activeView |-> "undefined", brush |-> <<>>, activeBrush |-> <<>>,
               brushes |-> NoBrushes, epoch |-> NoArgs]

\* faulty variant: the copy of this.brushes is handed on as it is
wholeBrushes(name) == brushes

\* switchActiveView: the copy of this.brushes without the active dimension
filterContext(name) ==
    IF is1DView(views[name])
    THEN [brushes EXCEPT ![dimension(name)] = <<>>]
    ELSE brushes

\* faulty variant: the activated view is not omitted from the passive views
loadArgsAllViews(name) ==
    [activeView |-> name, pixels |-> HISTOGRAM_WIDTH, views |-> ViewNames,
     brushes |-> filterContext(name)]

\* the arguments switchActiveView(name) hands to db.loadData
loadArgs(name) ==
    [activeView |-> name, pixels |-> HISTOGRAM_WIDTH, views |-> omit(name),
     brushes |-> filterContext(name)]

\* a brush of a dimension other than that of view name changes in this step
OtherBrushChanges(name) ==
    \E dim \in Dimensions \ {dimension(name)} : brushes'[dim] # brushes[dim]

\* changedSince after a step that activated the views in switched
NoteChanges(switched) ==
    changedSince' =
        [name \in Views1D |->
            \/ (name \notin switched /\ changedSince[name])
            \/ OtherBrushChanges(name)]

switchActiveView(name) ==
    LET args == loadArgs(name)
    IN  /\ activeView' = name
        /\ data' = loadData(args.activeView, args.pixels, args.views, args.brushes)
        /\ dbCalls' = [loadData |-> 1, histogram |-> 0]
        /\ epoch' = args
        /\ built' = [built EXCEPT ![name] = args]
        /\ again' = (built[name] # NoArgs /\ ~changedSince[name])

\* faulty variant: every mouseover activates the view anew
hoverAlwaysSwitches(name) == TRUE

\* the mouseover listener: does the view have to be activated
hoverSwitches(name) == activeView # name

\* the mouseover listener of the 1D view name
Hover(name) ==
    /\ frameLeft = 0
    /\ UNCHANGED <<dataset, brushes, needsUpdate, scheduled, frameLeft,
                   frameUpdates, rendered, moved, used, failures>>
    /\ IF hoverSwitches(name)
       THEN /\ switchActiveView(name)
            /\ NoteChanges({name})
       ELSE /\ dbCalls' = NoCalls
            /\ again' = FALSE
            /\ UNCHANGED <<activeView, data, epoch, built, changedSince>>

\* values of the brush signal: null, or the two endpoints of a brushed interval
\* in either order (the order depends on the direction of the drag)
BrushSignals ==
    {<<>>} \cup BrushIntervals \cup {<<i[2], i[1]>> : i \in BrushIntervals}

\* faulty variant: only the first brushed view is ever activated
switchOnlyOnce(name) == activeView = "undefined"

\* faulty variant: every brush move activates the brushed view anew
alwaysSwitch(name) == TRUE

\* brushMove: does the brushed view have to be activated first
mustSwitch(name) == activeView # name

\* faulty variant: the value of the signal is stored as delivered
rawBrush(value) == value

\* brushMove: the interval stored for a value of the brush signal
storedBrush(value) == d3extent(value)

\* faulty variant: no callback is registered
dropFrameRequest(pending) == pending

\* brushMove: the callbacks waiting for the next animation frame once
\* window.requestAnimationFrame has registered one more
requestAnimationFrame(pending) == pending + 1

\* the brush signal listener of the 1D view name, for every value the signal
\* may deliver: <<>> (null) or the two endpoints of the brush in either order
brushMove(name, dim) ==
    /\ frameLeft = 0
    /\ scheduled < MaxScheduled
    /\ IF mustSwitch(name)
       THEN switchActiveView(name)
       ELSE /\ dbCalls' = NoCalls
            /\ again' = FALSE
            /\ UNCHANGED <<activeView, data, epoch, built>>
    /\ \E value \in BrushSignals :
          brushes' = [brushes EXCEPT
                        ![dim] = IF value = <<>> THEN <<>> ELSE storedBrush(value)]
    /\ NoteChanges(IF mustSwitch(name) THEN {name} ELSE {})
    /\ needsUpdate' = TRUE
    /\ scheduled' = requestAnimationFrame(scheduled)
    /\ moved' = brushes'
    /\ UNCHANGED <<dataset, frameLeft, frameUpdates, rendered, used, failures>>

\* the browser starts an animation frame: every callback registered so far
\* runs in it, one after the other, before any further input event
AnimationFrame ==
    /\ frameLeft = 0
    /\ scheduled > 0
    /\ frameLeft' = scheduled
    /\ scheduled' = 0
    /\ frameUpdates' = 0
    /\ dbCalls' = NoCalls
    /\ again' = FALSE
    /\ UNCHANGED <<dataset, activeView, brushes, data, needsUpdate, rendered,
                   epoch, built, changedSince, moved, used, failures>>

\* faulty variant: the indices are clamped to the slices, not to the pixels
sliceRange(pixels) == <<0, pixels>>

\* update: the range the pixel indices of the active brush are clamped to
pixelRange(pixels) == <<0, pixels - 1>>

\* update: the pixel index of a brush endpoint b on a dimension of extent e
pixelOf(e, pixels, b) ==
    clamp(binNumberFunction(e[1], stepSize(e, pixels), b), pixelRange(pixels))

\* update: the active brush in the pixel domain
activeBrushOf(brush) ==
    IF brush = <<>> THEN <<>>
    ELSE [n \in 1..2 |->
            pixelOf(extent(dimension(activeView)), HISTOGRAM_WIDTH, brush[n])]

\* faulty variant: the slice of the last pixel is shown instead
lastPixelSlice == HISTOGRAM_WIDTH - 1

\* update: the slice shown when the active view has no brush
completeSlice == HISTOGRAM_WIDTH

\* faulty variant: both slices are picked one index too high
updateResultShifted(name, activeBrush) ==
    LET hists == data[name]
    IN  IF activeBrush # <<>>
        THEN diff(pick(hists, activeBrush[1] + 1), pick(hists, activeBrush[2] + 1))
        ELSE pick(hists, HISTOGRAM_WIDTH)

\* update: the aggregate handed to update1DView / update2DView for a view
updateResult(name, activeBrush) ==
    LET hists == data[name]
    IN  IF activeBrush # <<>>
        THEN diff(pick(hists, activeBrush[1]), pick(hists, activeBrush[2]))
        ELSE pick(hists, completeSlice)

\* faulty variant: the flag is left set
flagLeftSet == TRUE

\* update: the flag once the update has started
flagAfterUpdate == FALSE

\* faulty variant: the views with two dimensions are passed over as well
skipped2D(name) == name = activeView \/ ~is1DView(views[name])

\* update: the views the loop over this.views passes over
skipped(name) == name = activeView

\* update: the loop gets as far as view name: no view before it, nor name
\* itself, lacks its cube (this.data.get(name) is undefined for a view without
\* a cube, and hists.pick then throws out of update)
reached(name) ==
    \A k \in 1..Len(viewOrder) :
        (\E l \in k..Len(viewOrder) : viewOrder[l] = name)
            => (skipped(viewOrder[k]) \/ data[viewOrder[k]] # <<>>)

\* one scheduled callback runs update()
update ==
    /\ frameLeft > 0
    /\ frameLeft' = frameLeft - 1
    /\ IF ~needsUpdate
       THEN UNCHANGED <<needsUpdate, rendered, used, frameUpdates>>
       ELSE LET brush == brushes[dimension(activeView)]
                activeBrush == activeBrushOf(brush)
            IN  /\ needsUpdate' = flagAfterUpdate
                /\ rendered' =
                     [name \in ViewNames |->
                        IF skipped(name) \/ ~reached(name) THEN rendered[name]
                        ELSE updateResult(name, activeBrush)]
                /\ used' = [activeView |-> activeView, brush |-> brush,
                            activeBrush |-> activeBrush, brushes |-> brushes,
                            epoch |-> epoch]
                /\ frameUpdates' = frameUpdates + 1
    /\ dbCalls' = NoCalls
    /\ again' = FALSE
    /\ UNCHANGED <<dataset, activeView, brushes, data, scheduled, epoch, built,
                   changedSince, moved, failures>>

Next ==
    \/ \E name \in Views1D : Hover(name)
    \/ \E name \in Views1D : brushMove(name, dimension(name))
    \/ AnimationFrame
    \/ update

Spec == Init /\ [][Next]_vars

\* the failures a request to the backend may end with
BuildFailures == {"ConnectionError", "TimeoutError"}

\* switchActiveView(name) when db.loadData throws: the view is already
\* recorded as active, this.data is not assigned
switchActiveViewThrows(name) ==
    /\ activeView' = name
    /\ dbCalls' = [loadData |-> 1, histogram |-> 0]
    /\ again' = FALSE
    /\ UNCHANGED <<data, epoch, built>>

\* the mouseover listener or the brush signal listener of the 1D view name
\* when the build throws: the exception leaves the listener, so brushMove
\* stores no brush, sets no flag and registers no callback
ActivationFails(name) ==
    /\ frameLeft = 0
    /\ failures < MaxFailures
    /\ failures' = failures + 1
    /\ activeView # name
    /\ \E failure \in BuildFailures : switchActiveViewThrows(name)
    /\ UNCHANGED <<dataset, brushes, needsUpdate, scheduled, frameLeft,
                   frameUpdates, rendered, changedSince, moved, used>>

NextFail ==
    \/ Next
    \/ \E name \in Views1D : ActivationFails(name)

\* a failing build does not look at the rows: a table of one row, with a value
\* inside the extent on both dimensions, stands for all
InitFail == Init /\ dataset = <<[DEP_DELAY |-> 2, ARR_DELAY |-> 2]>>

\* the program with a backend whose builds may fail
SpecFail == InitFail /\ [][NextFail]_vars

\* the browser runs every animation frame that was requested, and every
\* callback registered for a frame that has started
FairSpec == Spec /\ WF_vars(AnimationFrame) /\ WF_vars(update)

----------------------------------------------------------------------------
(* Properties *)

\* the filter context at the last logical update: the brushes update() found,
\* without the brush of the view that was active
usedContext == [used.brushes EXCEPT ![dimension(used.activeView)] = <<>>]

\* the views the last logical update rendered
usedPassive == ViewNames \ {used.activeView}

updated == used.activeView # "undefined"

\* v compared with boundary k of the dimension that was active at the update
Scaled(v) == (v - extent(dimension(used.activeView))[1]) * HISTOGRAM_WIDTH

Mark(k) ==
    LET e == extent(dimension(used.activeView)) IN k * (e[2] - e[1])

activeValue(i) == dataset[i][dimension(used.activeView)]

\* C1: whenever a view is active, the cubes in App.data are those of the
\* db.loadData call issued for the current active view, with all the other
\* views as passive views and with the current brushes minus the brush of the
\* active view's dimension as filter context.
EpochConsistency ==
    activeView # "undefined" =>
        /\ epoch.activeView = activeView
        /\ epoch.views = ViewNames \ {activeView}
        /\ epoch.brushes = [brushes EXCEPT ![dimension(activeView)] = <<>>]
        /\ \A name \in ViewNames : (data[name] # <<>>) = (name # activeView)

EpochConsistencyWitness ==
    /\ activeView = "ARR_DELAY"
    /\ brushes["DEP_DELAY"] # <<>>
    /\ brushes["ARR_DELAY"] # <<>>
    /\ used.activeView = "ARR_DELAY"
    /\ used.brushes = brushes

\* C2 (as claimed): after a logical update with a brush snapped to (i, j), every
\* passive view shows the backend aggregate under the filter context plus the
\* active dimension in [boundary(i), boundary(j)): closed below, open above.
DiffIsClosedOpenAggregate ==
    (updated /\ used.activeBrush # <<>>) =>
        \A name \in usedPassive :
            rendered[name] =
                Aggregate(name,
                    {i \in RowIds :
                        /\ Passes(dataset[i], usedContext)
                        /\ Mark(used.activeBrush[1]) <= Scaled(activeValue(i))
                        /\ Scaled(activeValue(i)) < Mark(used.activeBrush[2])})

\* C2 (amended): after a logical update with a brush snapped to (i, j), every
\* passive view shows the backend aggregate under the filter context plus the
\* active dimension in (boundary(i), boundary(j)]: open below, closed above.
DiffIsOpenClosedAggregate ==
    (updated /\ used.activeBrush # <<>>) =>
        \A name \in usedPassive :
            rendered[name] =
                Aggregate(name,
                    {i \in RowIds :
                        /\ Passes(dataset[i], usedContext)
                        /\ Mark(used.activeBrush[1]) < Scaled(activeValue(i))
                        /\ Scaled(activeValue(i)) <= Mark(used.activeBrush[2])})

\* a difference of two slices was rendered under a non-empty filter context,
\* it counts a row that lies exactly on the upper boundary
DiffWitness ==
    /\ updated
    /\ used.activeBrush # <<>>
    /\ used.activeBrush[1] < used.activeBrush[2]
    /\ usedContext # NoBrushes
    /\ \E i \in RowIds : Scaled(activeValue(i)) = Mark(used.activeBrush[2])
    /\ \E name \in usedPassive : \E n \in DOMAIN rendered[name] :
          rendered[name][n] > 0

\* C3: the last slice of every stored cube is the backend aggregate of its
\* view under the filter context alone, and a logical update that finds no
\* brush on the active view renders exactly that aggregate for every passive
\* view, also when rows lie outside the extent of the active dimension.
LastSliceIsComplete ==
    /\ \A name \in ViewNames :
          data[name] # <<>> =>
              /\ Len(data[name]) = HISTOGRAM_WIDTH + 1
              /\ data[name][HISTOGRAM_WIDTH + 1] = Histogram(name, epoch.brushes)
    /\ (updated /\ used.activeBrush = <<>>) =>
          \A name \in usedPassive :
              rendered[name] = Histogram(name, usedContext)

LastSliceWitness ==
    /\ updated
    /\ used.activeBrush = <<>>
    /\ usedContext # NoBrushes
    /\ \E i \in RowIds :
          /\ activeValue(i) > MaxExtent
          /\ Passes(dataset[i], usedContext)
          /\ \E name \in usedPassive : CellOf(name, dataset[i]) # 0

\* the boundary nearest to v (the upper one of two equally near) among the
\* boundaries ..., -1, 0, 1, ... spaced (e[2] - e[1]) / pixels from e[1]
NearestBoundary(e, pixels, v) ==
    LET n == (v - e[1]) * pixels
        d == e[2] - e[1]
    IN  CHOOSE k \in (-2 * pixels)..(3 * pixels) :
            (2 * k - 1) * d <= 2 * n /\ 2 * n < (2 * k + 1) * d

\* both indices of the last logical update are the nearest boundary of their
\* endpoint, clamped to 0..top
SnapsInto(top) ==
    (updated /\ used.activeBrush # <<>>) =>
        \A n \in 1..2 :
            used.activeBrush[n] =
                Max(0, Min(top,
                    NearestBoundary(extent(dimension(used.activeView)),
                                    HISTOGRAM_WIDTH, used.brush[n])))

\* extent [-10, 100] at resolution 500: the brush [10, 50] maps to 91 and 273
SnapScenario ==
    /\ pixelOf(<<-10, 100>>, 500, 10) = 91
    /\ pixelOf(<<-10, 100>>, 500, 50) = 273

\* C4 (as claimed): each endpoint of the active brush maps to the nearest of
\* the resolution + 1 boundaries, clamped to 0..resolution.
SnapClampedToResolution == SnapsInto(HISTOGRAM_WIDTH) /\ SnapScenario

\* C4 (amended): each endpoint of the active brush maps to the nearest of the
\* boundaries, clamped to 0..resolution - 1; the brush [10, 50] on the extent
\* [-10, 100] at resolution 500 maps to 91 and 273.
SnapClampedToLastPixel == SnapsInto(HISTOGRAM_WIDTH - 1) /\ SnapScenario

\* an endpoint beyond the upper end of the extent was snapped
SnapWitness ==
    /\ updated
    /\ used.activeBrush # <<>>
    /\ used.brush[2] > MaxExtent
    /\ used.activeBrush[2] = HISTOGRAM_WIDTH - 1

\* C5: in one animation frame at most one callback performs a logical update,
\* and the update that ran last read the brushes as the last brushMove left
\* them.
UpdateCoalescing ==
    /\ frameUpdates <= 1
    /\ (updated /\ ~needsUpdate) => used.brushes = moved

\* two callbacks were scheduled for one frame: the first has updated, the
\* second is about to run
CoalescingWitness ==
    /\ frameLeft = 1
    /\ frameUpdates = 1
    /\ ~needsUpdate
    /\ used.brush # <<>>

\* C6 (as claimed): while a view is active, App.brushes has no entry for the
\* dimension of the active view.
NoBrushOnActiveDimension ==
    /\ activeView \in Views1D \cup {"undefined"}
    /\ activeView # "undefined" => brushes[dimension(activeView)] = <<>>

\* C6 (amended): there is at most one active view, and while a view is active
\* the filter context the stored cubes were built for has no entry for the
\* dimension of the active view (App.brushes may hold one: the active brush).
NoActiveDimensionInFilterContext ==
    /\ activeView \in Views1D \cup {"undefined"}
    /\ activeView # "undefined" => epoch.brushes[dimension(activeView)] = <<>>

\* a view that already has a brush was activated by hovering it
FilterContextWitness ==
    /\ activeView = "DEP_DELAY"
    /\ dbCalls.loadData = 1
    /\ ~needsUpdate
    /\ brushes["DEP_DELAY"] # <<>>
    /\ epoch.brushes["ARR_DELAY"] # <<>>

\* C7: a step that leaves the active view unchanged (a brush move on the
\* active view, an update, a hover over the active view) issues no DataBase
\* call at all, and a step that changes the active view issues exactly one
\* db.loadData call and nothing else.
OneBuildPerEpoch ==
    [][dbCalls' = IF activeView' # activeView
                  THEN [loadData |-> 1, histogram |-> 0]
                  ELSE NoCalls]_vars

\* two brush moves in a row on the view that is active, without a DataBase call
OneBuildWitness ==
    /\ scheduled = 2
    /\ dbCalls = NoCalls
    /\ activeView # "undefined"
    /\ brushes[dimension(activeView)] # <<>>

\* C8: a view that is activated again, no brush of another dimension having
\* changed since it was last built, is built with the arguments of its last
\* build, and the cubes are those that build produced.
NoDrift ==
    [][\A name \in Views1D :
          (activeView' = name /\ activeView # name
              /\ built[name] # NoArgs /\ ~changedSince[name])
          => /\ epoch' = built[name]
             /\ data' = loadData(built[name].activeView, built[name].pixels,
                                 built[name].views, built[name].brushes)]_vars

\* view A was built, view B was active, and A is built again with nothing but
\* its own brush changed in between, under a non-empty filter context
NoDriftWitness ==
    /\ again
    /\ epoch.brushes # NoBrushes
    /\ brushes[dimension(activeView)] # <<>>

\* C9: no aggregate handed to a view has a negative entry.
NoNegativeCounts ==
    \A name \in ViewNames : \A n \in DOMAIN rendered[name] :
        rendered[name][n] >= 0

\* a difference of two distinct slices was rendered, with a positive count
NoNegativeWitness ==
    /\ updated
    /\ used.activeBrush # <<>>
    /\ used.activeBrush[1] < used.activeBrush[2]
    /\ \E name \in usedPassive : \E n \in DOMAIN rendered[name] :
          rendered[name][n] > 0

\* C10: with naiveBaseline enabled no cube is loaded (no db.loadData call, an
\* empty App.data) and a handler that renders the passive views issues a
\* direct histogram / heatmap call for each of them.
BaselineBypassesCubes ==
    naiveBaseline =>
        /\ dbCalls.loadData = 0
        /\ data = NoData
        /\ (frameUpdates = 1 /\ ~needsUpdate /\ frameLeft > 0) =>
              dbCalls.histogram = Cardinality(usedPassive)

\* the arguments of the build an activation of view name has to issue when the
\* brushes are b: b without the brush of name's own dimension as filter context,
\* the histogram pixel width as resolution, every other view as passive view
activationArgs(name, b) ==
    [activeView |-> name, pixels |-> HISTOGRAM_WIDTH,
     views |-> ViewNames \ {name},
     brushes |-> [dim \in Dimensions |->
                    IF dim = dimension(name) THEN <<>> ELSE b[dim]]]

\* C11: whenever a view other than the active view is hovered or brushed, it
\* becomes the active view and the build is issued with all current brushes
\* except the brush of its own dimension as filter context, the histogram
\* pixel width as resolution and all the other views as passive views.
ActivationFilterContext ==
    [][\A name \in Views1D :
          (activeView # name
              /\ (Hover(name) \/ brushMove(name, dimension(name))))
          => /\ activeView' = name
             /\ dbCalls'.loadData = 1
             /\ epoch' = activationArgs(name, brushes)
             /\ epoch' = activationArgs(name, brushes')]_vars

\* a view was activated by a brush move while the other view has a brush
ActivationWitness ==
    /\ activeView = "ARR_DELAY"
    /\ dbCalls.loadData = 1
    /\ needsUpdate
    /\ brushes["ARR_DELAY"] # <<>>
    /\ epoch.brushes["DEP_DELAY"] # <<>>

\* C12: a brush move (set, move or clear) on the view that is already active
\* leaves the active view, the stored cubes and what is rendered unchanged and
\* issues no DataBase call; of the controller's fields it changes only the
\* brushes entry of that view's dimension and the dirty flag, which it sets.
ActiveBrushFrame ==
    [][\A name \in Views1D :
          (activeView = name /\ brushMove(name, dimension(name)))
          => /\ activeView' = activeView
             /\ data' = data
             /\ epoch' = epoch
             /\ dbCalls' = NoCalls
             /\ rendered' = rendered
             /\ \A dim \in Dimensions \ {dimension(name)} :
                   brushes'[dim] = brushes[dim]
             /\ needsUpdate']_vars

\* the brush of the active view was cleared by a second brush move in a row,
\* the other view keeping its brush
ActiveBrushWitness ==
    /\ activeView = "DEP_DELAY"
    /\ scheduled = 2
    /\ dbCalls = NoCalls
    /\ moved = brushes
    /\ brushes["DEP_DELAY"] = <<>>
    /\ brushes["ARR_DELAY"] # <<>>
    /\ epoch.brushes = brushes

\* C13 (as claimed): whenever a brush of a dimension that does not belong to
\* the active view is set or cleared, the active view stays what it is and the
\* cubes are rebuilt by an activation of that same view, with a filter context
\* that includes the changed brush.
PassiveBrushKeepsActiveView ==
    [][\A dim \in Dimensions :
          (/\ activeView # "undefined"
           /\ dim # dimension(activeView)
           /\ brushes'[dim] # brushes[dim])
          => /\ activeView' = activeView
             /\ dbCalls'.loadData = 1
             /\ epoch' = activationArgs(activeView, brushes')]_vars

\* C13 (amended): whenever a view other than the active view is brushed, that
\* view becomes the active view and the cubes are rebuilt by an activation of
\* it: the filter context holds the brush of the view that was active before
\* and every other brush, but not the brush that was just set or cleared.
PassiveBrushActivatesItsView ==
    [][\A name \in Views1D :
          (/\ activeView # "undefined"
           /\ activeView # name
           /\ brushMove(name, dimension(name)))
          => /\ activeView' = name
             /\ dbCalls' = [loadData |-> 1, histogram |-> 0]
             /\ epoch' = activationArgs(name, brushes')
             /\ epoch'.brushes[dimension(name)] = <<>>
             /\ epoch'.brushes[dimension(activeView)]
                   = brushes[dimension(activeView)]
             /\ \A other \in ViewNames \ {name} :
                   data'[other][completeSlice + 1]
                       = Histogram(other, epoch'.brushes)]_vars

\* a view was brushed while the other view, which has a brush, was active
PassiveBrushWitness ==
    /\ activeView = "DEP_DELAY"
    /\ built["ARR_DELAY"] # NoArgs
    /\ dbCalls.loadData = 1
    /\ scheduled = 1
    /\ needsUpdate
    /\ moved = brushes
    /\ brushes["DEP_DELAY"] # <<>>
    /\ epoch.brushes["ARR_DELAY"] # <<>>
    /\ epoch.brushes["DEP_DELAY"] = <<>>

\* what a logical update has to hand to the passive view name: the difference
\* of the two slices of its cube at the pixel indices of the active brush, or
\* the last slice of its cube when the active view has no brush
cubeResult(name, activeBrush) ==
    IF activeBrush = <<>>
    THEN data[name][HISTOGRAM_WIDTH + 1]
    ELSE [n \in DOMAIN data[name][1] |->
            data[name][activeBrush[2] + 1][n] - data[name][activeBrush[1] + 1][n]]

\* C14: an update() that finds the dirty flag set hands to every view other
\* than the active view one result, computed from that view's cube and the
\* current brush of the active view (or none), and nothing to the active view;
\* it leaves the active view, the brushes and the cubes unchanged, issues no
\* DataBase call and clears the dirty flag.
UpdateFrame ==
    [][(needsUpdate /\ update)
          => /\ used'.activeView = activeView
             /\ used'.brush = brushes[dimension(activeView)]
             /\ \A name \in ViewNames \ {activeView} :
                   rendered'[name] = cubeResult(name, used'.activeBrush)
             /\ rendered'[activeView] = rendered[activeView]
             /\ activeView' = activeView
             /\ brushes' = brushes
             /\ data' = data
             /\ dbCalls' = NoCalls
             /\ ~needsUpdate']_vars

\* a logical update has just rendered the view with two dimensions from a
\* brush on the active view, under a non-empty filter context
UpdateFrameWitness ==
    /\ updated
    /\ frameUpdates = 1
    /\ ~needsUpdate
    /\ used.activeView = activeView
    /\ used.brushes = brushes
    /\ used.epoch = epoch
    /\ used.activeBrush # <<>>
    /\ epoch.brushes # NoBrushes
    /\ \E n \in DOMAIN rendered["DEP_DELAY_ARR_DELAY"] :
          rendered["DEP_DELAY_ARR_DELAY"][n] > 0

\* the last logical update rendered from the brushes as they are now
renderedCurrent ==
    /\ ~needsUpdate
    /\ updated
    /\ used.brushes = brushes

\* a step of the brush signal listener of some view
BrushEvent == \E name \in Views1D : brushMove(name, dimension(name))

\* C15: when the browser runs the requested animation frames and their
\* callbacks, every brush move is followed by a logical update that renders
\* from the brushes current when it runs; a cleared dirty flag means that the
\* last rendering was made from the brushes as they are, and only a brush
\* event sets the flag again: once brush events stop, the flag ends up cleared
\* for good with the last rendering made from the final brushes.
EventualRendering ==
    /\ needsUpdate ~> (renderedCurrent /\ frameUpdates = 1
                          /\ used.activeView = activeView /\ used.epoch = epoch)
    /\ [](~needsUpdate => (renderedCurrent \/ (~updated /\ brushes = NoBrushes)))
    /\ [][(~needsUpdate /\ needsUpdate') => BrushEvent]_vars

\* a brush move was made, the frame has run and rendered from its brush
EventualRenderingWitness ==
    /\ renderedCurrent
    /\ frameLeft = 0
    /\ scheduled = 0
    /\ moved = brushes
    /\ used.brush # <<>>
    /\ used.activeView = activeView

\* C16: after a build that failed the view is not recorded as active with the
\* cubes of the previous active view still stored, and no update() runs its
\* body for the brush of a view on the cubes built for another active view.
FailedActivationIsolated ==
    /\ (activeView # "undefined" /\ data # NoData)
          => epoch.activeView = activeView
    /\ (updated /\ used.epoch # NoArgs)
          => used.epoch.activeView = used.activeView

\* C17: while the dirty flag is set, an update() callback is still to run (it
\* is registered for the next animation frame or waits in the running one),
\* an active view is set and a cube built for that active view is stored for
\* every other view; a logical update never ran before the first activation.
NoLostUpdate ==
    /\ needsUpdate =>
          /\ scheduled + frameLeft > 0
          /\ activeView # "undefined"
          /\ epoch.activeView = activeView
          /\ \A name \in ViewNames \ {activeView} :
                Len(data[name]) = HISTOGRAM_WIDTH + 1
    /\ frameUpdates > 0 =>
          /\ used.activeView # "undefined"
          /\ used.epoch.activeView = used.activeView

\* a frame has started with two callbacks to run and the flag set, the active
\* view having a brush
NoLostUpdateWitness ==
    /\ needsUpdate
    /\ frameLeft = 2
    /\ scheduled = 0
    /\ brushes[dimension(activeView)] # <<>>

\* brush endpoints from below the extent to above it
BrushValues == (0 - 2)..(MaxExtent + 2)

\* whatever the two ends of a brush, the pixel indices of both lie in
\* 0..resolution and keep the order of the ends
IndicesInRange ==
    \A name \in Views1D : \A lo \in BrushValues : \A hi \in BrushValues :
        lo <= hi =>
            LET e == extent(dimension(name))
                loIndex == pixelOf(e, HISTOGRAM_WIDTH, lo)
                hiIndex == pixelOf(e, HISTOGRAM_WIDTH, hi)
            IN  /\ 0 <= loIndex
                /\ loIndex <= hiIndex
                /\ hiIndex <= HISTOGRAM_WIDTH

\* C18: a stored brush has its lower end first whatever the order of the two
\* values of the signal, and for every brush (also one that reaches outside the
\* extent) the two pixel indices update() computes satisfy
\* 0 <= loIndex <= hiIndex <= resolution, so that update() only reads slices
\* the cubes have.
OrderedSliceIndices ==
    /\ \A dim \in Dimensions :
          brushes[dim] # <<>> => brushes[dim][1] <= brushes[dim][2]
    /\ (updated /\ used.activeBrush # <<>>) =>
          /\ used.brush[1] <= used.brush[2]
          /\ 0 <= used.activeBrush[1]
          /\ used.activeBrush[1] <= used.activeBrush[2]
          /\ used.activeBrush[2] <= HISTOGRAM_WIDTH
    /\ \A name \in ViewNames :
          data[name] # <<>> => DOMAIN data[name] = 1..(HISTOGRAM_WIDTH + 1)
    /\ IndicesInRange

\* an update ran with a brush that starts below the extent, while the other
\* dimension holds a brush that ends above it
OrderedIndicesWitness ==
    /\ updated
    /\ used.activeView = activeView
    /\ used.brushes = brushes
    /\ used.brush # <<>>
    /\ used.brush[1] < 0
    /\ used.activeBrush[1] = 0
    /\ used.activeBrush[2] > 0
    /\ \E dim \in Dimensions \ {dimension(activeView)} :
          /\ brushes[dim] # <<>>
          /\ brushes[dim][2] > MaxExtent

\* C19: a mouseover that activates a view leaves every entry of the brushes
\* as it is, sets no dirty flag, registers no callback and renders nothing;
\* a mouseover on the view that is already active changes no field of the
\* controller and issues no DataBase call.
HoverFrame ==
    [][\A name \in Views1D :
          Hover(name)
          => /\ brushes' = brushes
             /\ needsUpdate' = needsUpdate
             /\ scheduled' = scheduled
             /\ frameLeft' = frameLeft
             /\ rendered' = rendered
             /\ activeView' = name
             /\ activeView = name
                   => /\ data' = data
                      /\ epoch' = epoch
                      /\ dbCalls' = NoCalls]_vars

\* a mouseover alone has activated a view while both dimensions hold a brush
\* and nothing is waiting to be rendered
HoverWitness ==
    /\ activeView = "ARR_DELAY"
    /\ dbCalls.loadData = 1
    /\ ~needsUpdate
    /\ scheduled = 0
    /\ frameLeft = 0
    /\ brushes["ARR_DELAY"] # <<>>
    /\ brushes["DEP_DELAY"] # <<>>
    /\ epoch.brushes["DEP_DELAY"] = brushes["DEP_DELAY"]
    /\ used.activeView = "DEP_DELAY"

====
